---- MODULE Spec2Model ----
(***************************************************************************)
(* Model of the intrusive chained hash table of hashmap.c / hashmap.h.     *)
(*                                                                         *)
(* A hash_node is a small integer; NULL is 0.  The node fields hash and    *)
(* next are functions over the nodes, the bucket array is a function over  *)
(* 0 .. cap-1 where cap is the number of slots of the heap block that      *)
(* realloc last returned.  The caller's record (struct test) contributes   *)
(* its key field i, which the comparison callback reads.                   *)
(***************************************************************************)
EXTENDS Integers, Sequences, FiniteSets, TLC

\* ------------------------------------------------------------- bounds
\* Records 1 .. MaxFill carry the keys 0 .. MaxFill-1; the lowest one not
\* stored is the next to be inserted, and the highest one stored is the
\* next to be removed by its key (the order main() uses).
MaxFill == 50
\* Records MaxFill+1 .. MaxFill+MaxFree are inserted and removed at any
\* time, with any of the keys of FreeKeys; the allocator hands out the
\* lowest one not in use.
MaxFree == 1
\* COUNT of main(), scaled down: main() inserts the keys 0 .. MainCount-1,
\* looks them up, and removes them from the highest down.
MainCount == 64
\* COUNT of main() when realloc may fail: enough records to overload a
\* table of MIN_SLOTS slots past twice its growth threshold.
MaxLoad == 98

\* ---------------------------------------------------------- constants
MIN_SLOTS == 16

NULL == 0
\* A slot of the heap block that no one has written since it was allocated.
UNINIT == -1

FillNodes == 1 .. MaxFill
FreeNodes == (MaxFill + 1) .. (MaxFill + MaxFree)
MainNodes == 1 .. MainCount
LoadNodes == 1 .. MaxLoad
Nodes == FillNodes \cup FreeNodes \cup MainNodes \cup LoadNodes

\* 45 is also the key of fill record 46: a second record with an equal key.
\* 1053 = 1024 + 16 + 13 is the key of no other record; under hash_low its
\* hash value is that of key 29, and it shares bucket 13 with the keys 13,
\* 29 and 45 while len is 16.
FreeKeys == {45, 1053}
FillKeys == 0 .. (MaxFill - 1)
MainKeys == 0 .. (MainCount - 1)
LoadKeys == 0 .. (MaxLoad - 1)
Keys == FillKeys \cup FreeKeys

VARIABLES
    table,      \* map->table: slot -> node, NULL or UNINIT
    cap,        \* slots of the heap block behind map->table
    len,        \* map->len
    count,      \* map->count
    map_hash,   \* map->hash: which hash callback hashmap_init was given
    hash,       \* node->hash
    next,       \* node->next
    reckey,     \* the key field of the record embedding each node
    stored,     \* nodes inserted and not removed since (history)
    call,       \* the last call that changed the table, and how (history)
    dups        \* pairs of stored nodes with equal keys (history)

vars ==
    <<table, cap, len, count, map_hash, hash, next, reckey, stored, call,
      dups>>

\* The memory the operations work on: struct hashmap, the bucket array and
\* the fields of the nodes and of their records.
Map ==
    [table |-> table, cap |-> cap, len |-> len, count |-> count,
     hash |-> hash, next |-> next, reckey |-> reckey]

\* ------------------------------------------------------------ helpers
\* a & b on naturals, bit by bit.
RECURSIVE bit_and(_, _)
bit_and(a, b) ==
    IF a = 0 \/ b = 0 THEN 0
    ELSE (a % 2) * (b % 2) + 2 * bit_and(a \div 2, b \div 2)

\* a & b for the operands the table code meets: a hash value on the left,
\* len - 1 or len on the right (len up to 4 * MIN_SLOTS).  Computed once.
AndTable ==
    [a \in 0 .. 1023 |-> [b \in 0 .. (8 * MIN_SLOTS - 1) |-> bit_and(a, b)]]

BitAnd(a, b) == AndTable[a][b]

\* map->hash(key).  The callbacks a caller hands to hashmap_init here:
\* hash_test of the test harness (the key itself), and hash_low, which
\* keeps the low ten bits of the key, so that two different keys may have
\* the same hash value (1053 and 29).
hash_key(key) ==
    IF map_hash = "hash_test" THEN key ELSE key % 1024

\* A comparison that takes equal hash values for equal keys.
cmp_by_hash(m, node, key) == m.hash[node] = hash_key(key)

\* cmp_test: the record's key field against the key.
cmp(m, node, key) == m.reckey[node] = key

\* ---------------------------------------------------------- the heap
\* realloc(block, n slots) when it succeeds: the old contents up to the
\* smaller of the two sizes, the rest indeterminate.
realloc(tbl, oldcap, n) ==
    [i \in 0 .. (n - 1) |-> IF i < oldcap THEN tbl[i] ELSE UNINIT]

\* ------------------------------------------------------- hashmap_grow
\* A split that keeps each half in the order of the old chain.
RECURSIVE split_chain_in_order(_, _, _, _, _, _)
split_chain_in_order(node, a, b, nx, hs, L) ==
    IF node = NULL THEN [a |-> a, b |-> b, next |-> nx]
    ELSE LET rest == split_chain_in_order(nx[node], a, b, nx, hs, L)
         IN  IF BitAnd(hs[node], L) # 0
             THEN [a |-> rest.a, b |-> node,
                   next |-> [rest.next EXCEPT ![node] = rest.b]]
             ELSE [a |-> node, b |-> rest.b,
                   next |-> [rest.next EXCEPT ![node] = rest.a]]

\* The while loop of hashmap_grow over one chain: a and b collect the
\* nodes of the lower and of the upper half, each by prepending.
RECURSIVE split_chain(_, _, _, _, _, _)
split_chain(node, a, b, nx, hs, L) ==
    IF node = NULL THEN [a |-> a, b |-> b, next |-> nx]
    ELSE IF BitAnd(hs[node], L) # 0
         THEN split_chain(nx[node], a, node, [nx EXCEPT ![node] = b], hs, L)
         ELSE split_chain(nx[node], node, b, [nx EXCEPT ![node] = a], hs, L)

\* The for loop of hashmap_grow from bucket i on.
RECURSIVE grow_loop(_, _, _, _, _)
grow_loop(i, tbl, nx, hs, L) ==
    IF i >= L THEN [table |-> tbl, next |-> nx]
    ELSE LET s == split_chain(tbl[i], NULL, NULL, nx, hs, L)
         IN  grow_loop(i + 1, [tbl EXCEPT ![i] = s.a, ![i + L] = s.b],
                       s.next, hs, L)

\* A growth that doubles the table and leaves every chain where it was.
hashmap_grow_nosplit(m, ok) ==
    IF ~ok THEN [m |-> m, ret |-> -1]
    ELSE [m |-> [m EXCEPT !.table = [i \in 0 .. (m.len * 2 - 1) |->
                                        IF i < m.len THEN m.table[i]
                                        ELSE NULL],
                          !.cap = m.len * 2, !.len = m.len * 2],
          ret |-> 0]

\* hashmap_grow; ok says whether realloc succeeds.
hashmap_grow(m, ok) ==
    IF ~ok THEN [m |-> m, ret |-> -1]
    ELSE LET g == grow_loop(0, realloc(m.table, m.cap, m.len * 2), m.next,
                            m.hash, m.len)
         IN  [m |-> [m EXCEPT !.table = g.table, !.next = g.next,
                              !.cap = m.len * 2, !.len = m.len * 2],
              ret |-> 0]

\* ----------------------------------------------------- hashmap_shrink
\* A walk that stops at the head of the chain.
last_of_head(prev, nx) == prev

\* while (prev->next) prev = prev->next;
RECURSIVE last_of(_, _)
last_of(prev, nx) ==
    IF nx[prev] # NULL THEN last_of(nx[prev], nx) ELSE prev

\* The for loop of hashmap_shrink from bucket i on; L is the halved len.
RECURSIVE shrink_loop(_, _, _, _)
shrink_loop(i, tbl, nx, L) ==
    IF i >= L THEN [table |-> tbl, next |-> nx]
    ELSE LET prev == tbl[i]
             nxt == tbl[i + L]
         IN  IF prev = NULL
             THEN shrink_loop(i + 1, [tbl EXCEPT ![i] = nxt], nx, L)
             ELSE shrink_loop(i + 1, tbl,
                              [nx EXCEPT ![last_of(prev, nx)] = nxt], L)

\* A shrink that halves len and folds nothing.
hashmap_shrink_nofold(m, ok) ==
    IF ~ok THEN [m |-> [m EXCEPT !.len = m.len \div 2], ret |-> -1]
    ELSE [m |-> [m EXCEPT !.len = m.len \div 2, !.cap = m.len \div 2,
                          !.table = realloc(m.table, m.cap, m.len \div 2)],
          ret |-> 0]

\* A shrink that folds the chains and, when realloc fails, leaves len as it
\* was.
hashmap_shrink_keeps_len(m, ok) ==
    LET L == m.len \div 2
        s == shrink_loop(0, m.table, m.next, L)
    IN  IF ~ok
        THEN [m |-> [m EXCEPT !.table = s.table, !.next = s.next],
              ret |-> -1]
        ELSE [m |-> [m EXCEPT !.len = L, !.next = s.next, !.cap = L,
                              !.table = realloc(s.table, m.cap, L)],
              ret |-> 0]

\* hashmap_shrink; ok says whether the final realloc succeeds.
hashmap_shrink(m, ok) ==
    LET L == m.len \div 2
        s == shrink_loop(0, m.table, m.next, L)
        folded == [m EXCEPT !.len = L, !.table = s.table, !.next = s.next]
    IN  IF ~ok THEN [m |-> folded, ret |-> -1]
        ELSE [m |-> [folded EXCEPT !.table = realloc(s.table, m.cap, L),
                                   !.cap = L],
              ret |-> 0]

\* -------------------------------------------------------- hashmap_get
RECURSIVE get_walk(_, _, _)
get_walk(m, node, key) ==
    IF node = NULL THEN NULL
    ELSE IF cmp(m, node, key) THEN node
    ELSE get_walk(m, m.next[node], key)

hashmap_get(m, key) ==
    get_walk(m, m.table[BitAnd(hash_key(key), m.len - 1)], key)

\* ----------------------------------------------------- hashmap_insert
\* ok is the outcome of the realloc of the growth, if one is triggered.
\* resize tells what the call did to the table: "none", "grown", "failed".
\* A link step that forgets count++.
link_nocount(m, node, key) ==
    LET h == hash_key(key)
        slot == BitAnd(h, m.len - 1)
    IN  [m EXCEPT !.hash[node] = h,
                  !.next[node] = m.table[slot],
                  !.table[slot] = node]

\* A link step that puts the node behind the head of the chain.
link_behind_head(m, node, key) ==
    LET h == hash_key(key)
        slot == BitAnd(h, m.len - 1)
        head == m.table[slot]
    IN  IF head = NULL
        THEN [m EXCEPT !.hash[node] = h, !.next[node] = NULL,
                       !.table[slot] = node, !.count = m.count + 1]
        ELSE [m EXCEPT !.hash[node] = h, !.next[node] = m.next[head],
                       !.next[head] = node, !.count = m.count + 1]

\* A link step that stores the node in the slot before it reads the slot
\* for the node's next field.
link_slot_first(m, node, key) ==
    LET h == hash_key(key)
        slot == BitAnd(h, m.len - 1)
    IN  [m EXCEPT !.hash[node] = h,
                  !.table[slot] = node,
                  !.next[node] = node,
                  !.count = m.count + 1]

\* Lines 106-110: the hash is cached, the node becomes the head of its
\* bucket's chain, count++.
link(m, node, key) ==
    LET h == hash_key(key)
        slot == BitAnd(h, m.len - 1)
    IN  [m EXCEPT !.hash[node] = h,
                  !.next[node] = m.table[slot],
                  !.table[slot] = node,
                  !.count = m.count + 1]

\* A growth condition with a load factor of 1.
grow_needed_load1(m) == m.count > m.len

\* A growth condition one link late.
grow_needed_late(m) == m.count > m.len * 3 + 1

\* A growth condition that holds only right above the threshold.
grow_needed_once(m) == m.count = m.len * 3 + 1

\* Line 112: map->count > map->len * 3.
grow_needed(m) == m.count > m.len * 3

hashmap_insert(m, node, key, ok) ==
    LET m1 == link(m, node, key)
    IN  IF grow_needed(m1)
        THEN [m |-> hashmap_grow(m1, ok).m, ret |-> 0,
              resize |-> IF ok THEN "grown" ELSE "failed"]
        ELSE [m |-> m1, ret |-> 0, resize |-> "none"]

\* ----------------------------------------------------- hashmap_remove
\* The while loop of hashmap_remove: the first matching node and the node
\* before it (NULL when it is the head or when nothing matches).
RECURSIVE remove_walk(_, _, _, _)
remove_walk(m, node, prev, key) ==
    IF node = NULL THEN [node |-> NULL, prev |-> NULL]
    ELSE IF cmp(m, node, key) THEN [node |-> node, prev |-> prev]
    ELSE remove_walk(m, m.next[node], node, key)

\* ok is the outcome of the realloc of the shrink, if one is triggered.
\* resize: "none", "shrunk", "failed".
\* An unlink step that forgets count--.
unlink_nocount(m, slot, w) ==
    IF w.prev # NULL
    THEN [m EXCEPT !.next[w.prev] = m.next[w.node]]
    ELSE [m EXCEPT !.table[slot] = m.next[w.node]]

\* An unlink step that always makes the successor the head of the chain.
unlink_to_head(m, slot, w) ==
    [m EXCEPT !.table[slot] = m.next[w.node], !.count = m.count - 1]

\* Lines 123-127: the node found is taken off its chain, count--.
unlink(m, slot, w) ==
    IF w.prev # NULL
    THEN [m EXCEPT !.next[w.prev] = m.next[w.node], !.count = m.count - 1]
    ELSE [m EXCEPT !.table[slot] = m.next[w.node], !.count = m.count - 1]

\* Shrink conditions: without the floor, at half the length, never.
shrink_needed_nofloor(m) == m.count < m.len \div 4

shrink_needed_half(m) == m.count <= m.len \div 2 /\ m.len > MIN_SLOTS

shrink_needed_never(m) == m.count < 0

\* A shrink condition at an eighth of the length.
shrink_needed_late(m) == m.count < m.len \div 8 /\ m.len > MIN_SLOTS

\* Line 129: map->count < map->len / 4 && map->len > MIN_SLOTS.
shrink_needed(m) == m.count < m.len \div 4 /\ m.len > MIN_SLOTS

\* A remove that counts a link down also when it finds none.
hashmap_remove_miss_counts(m, key, ok) ==
    LET slot == BitAnd(hash_key(key), m.len - 1)
        w == remove_walk(m, m.table[slot], NULL, key)
        m1 == unlink(m, slot, w)
    IN  IF w.node = NULL
        THEN [m |-> [m EXCEPT !.count = m.count - 1], ret |-> NULL,
              resize |-> "none"]
        ELSE IF shrink_needed(m1)
        THEN [m |-> hashmap_shrink(m1, ok).m, ret |-> w.node,
              resize |-> IF ok THEN "shrunk" ELSE "failed"]
        ELSE [m |-> m1, ret |-> w.node, resize |-> "none"]

hashmap_remove(m, key, ok) ==
    LET slot == BitAnd(hash_key(key), m.len - 1)
        w == remove_walk(m, m.table[slot], NULL, key)
        m1 == unlink(m, slot, w)
    IN  IF w.node = NULL THEN [m |-> m, ret |-> NULL, resize |-> "none"]
        ELSE IF shrink_needed(m1)
        THEN [m |-> hashmap_shrink(m1, ok).m, ret |-> w.node,
              resize |-> IF ok THEN "shrunk" ELSE "failed"]
        ELSE [m |-> m1, ret |-> w.node, resize |-> "none"]

\* --------------------------------------------------------- the caller
\* calloc of a record and the assignment of its key (main, lines 181-182).
new_record(m, node, key) ==
    [m EXCEPT !.hash[node] = 0, !.next[node] = NULL, !.reckey[node] = key]

\* The caller releases the record hashmap_remove handed back; its storage
\* is next seen through calloc.
release_record(m, node) ==
    [m EXCEPT !.hash[node] = 0, !.next[node] = NULL, !.reckey[node] = 0]

\* ----------------------------------------------------------- actions
\* The lowest and the highest node of a set (NULL: the set is empty).
lowest(S) ==
    IF S = {} THEN NULL ELSE CHOOSE n \in S : \A o \in S : n <= o

highest(S) == -lowest({-n : n \in S})

\* The fill record inserted next and the one removed next (NULL: none).
next_fill == lowest(FillNodes \ stored)

top_fill == highest(FillNodes \cap stored)

\* The free record the allocator hands out next (NULL: none left).
free_node == lowest(FreeNodes \ stored)

Init ==
    /\ len = MIN_SLOTS
    /\ cap = MIN_SLOTS
    /\ table = [i \in 0 .. (MIN_SLOTS - 1) |-> NULL]
    /\ count = 0
    /\ map_hash = "hash_low"
    /\ hash = [n \in Nodes |-> 0]
    /\ next = [n \in Nodes |-> NULL]
    /\ reckey = [n \in Nodes |-> 0]
    /\ stored = {}
    /\ call = [op |-> "init", resize |-> "none"]
    /\ dups = {}

\* The table becomes m.
Becomes(m) ==
    /\ table' = m.table
    /\ cap' = m.cap
    /\ len' = m.len
    /\ count' = m.count
    /\ hash' = m.hash
    /\ next' = m.next
    /\ reckey' = m.reckey

\* Whether a call on m with this key would reallocate.
insert_resizes(m) == grow_needed([m EXCEPT !.count = m.count + 1])

remove_resizes(m, key) ==
    /\ hashmap_get(m, key) # NULL
    /\ shrink_needed([m EXCEPT !.count = m.count - 1])

\* dups holds [old, new, grown] for every two stored nodes with equal keys:
\* new was inserted after old, and grown tells whether a growth succeeded
\* since the call that inserted new began.
after_growth(ds, grew) ==
    IF grew THEN {[d EXCEPT !.grown = TRUE] : d \in ds} ELSE ds

\* The caller sets up the record of node with key and calls
\* hashmap_insert(map, node, key); ok is the outcome of realloc.
Insert(node, key, ok) ==
    /\ node \notin stored
    /\ ok \/ insert_resizes(Map)
    /\ \E r \in {hashmap_insert(new_record(Map, node, key), node, key, ok)} :
           /\ Becomes(r.m)
           /\ call' = [op |-> "insert", resize |-> r.resize]
           /\ dups' = after_growth(
                  dups \cup {[old |-> o, new |-> node, grown |-> FALSE] :
                                o \in {x \in stored : reckey[x] = key}},
                  r.resize = "grown")
    /\ stored' = stored \cup {node}
    /\ UNCHANGED map_hash

\* hashmap_remove(map, key); ok is the outcome of realloc.  The caller
\* releases the record it gets back.
Remove(key, ok) ==
    /\ ok \/ remove_resizes(Map, key)
    /\ \E r \in {hashmap_remove(Map, key, ok)} :
           IF r.ret = NULL
           THEN /\ Becomes(r.m)
                /\ UNCHANGED <<stored, call, dups>>
           ELSE /\ Becomes(release_record(r.m, r.ret))
                /\ stored' = stored \ {r.ret}
                /\ call' = [op |-> "remove", resize |-> r.resize]
                /\ dups' = {d \in dups : d.old # r.ret /\ d.new # r.ret}
    /\ UNCHANGED map_hash

\* hashmap_get(map, key): it writes nothing.
Get(key) ==
    /\ hashmap_get(Map, key) \in Nodes \cup {NULL}
    /\ UNCHANGED vars

InsertFill ==
    /\ next_fill # NULL
    /\ \E ok \in BOOLEAN : Insert(next_fill, next_fill - 1, ok)

InsertFree ==
    /\ free_node # NULL
    /\ \E key \in FreeKeys, ok \in BOOLEAN : Insert(free_node, key, ok)

\* The keys looked up and removed: the free keys, the key of the highest
\* stored fill record, and the key of the lowest fill record not stored.
ProbeKeys == FreeKeys \cup ({top_fill - 1, next_fill - 1} \cap FillKeys)

RemoveKey == \E key \in ProbeKeys, ok \in BOOLEAN : Remove(key, ok)

GetKey == \E key \in ProbeKeys : Get(key)

Next == InsertFill \/ InsertFree \/ RemoveKey \/ GetKey

Spec == Init /\ [][Next]_vars

\* ------------------------------------------------------------- main()
\* main() of the test harness with hash_test and no allocation failure:
\* the insert loop, the lookups, the remove loop.
MainInit ==
    /\ len = MIN_SLOTS
    /\ cap = MIN_SLOTS
    /\ table = [i \in 0 .. (MIN_SLOTS - 1) |-> NULL]
    /\ count = 0
    /\ map_hash = "hash_test"
    /\ hash = [n \in Nodes |-> 0]
    /\ next = [n \in Nodes |-> NULL]
    /\ reckey = [n \in Nodes |-> 0]
    /\ stored = {}
    /\ call = [op |-> "init", resize |-> "none"]
    /\ dups = {}

\* for (i = 0; i < COUNT; ++i) hashmap_insert(&map, &t->node, &i);
MainInsert ==
    /\ call.op \in {"init", "insert"}
    /\ MainNodes \ stored # {}
    /\ LET node == lowest(MainNodes \ stored)
       IN  Insert(node, node - 1, TRUE)

\* hashmap_get(&map, &k) for a key k of 0 .. COUNT-1, after the inserts.
MainGet ==
    /\ call.op = "insert"
    /\ stored = MainNodes
    /\ \E k \in MainKeys : Get(k)

\* for (i = 0; i < COUNT; ++i) hashmap_remove(&map, &k), k = COUNT-1-i.
MainRemove ==
    /\ stored = MainNodes \/ call.op = "remove"
    /\ stored # {}
    /\ Remove(highest(stored) - 1, TRUE)

MainNext == MainInsert \/ MainGet \/ MainRemove

MainSpec == MainInit /\ [][MainNext]_vars

\* --------------------------------------- main() when realloc may fail
\* The loops of main() over MaxLoad records, with every realloc of a
\* growth or a shrink free to fail.
LoadInit == MainInit

LoadInsert ==
    /\ call.op \in {"init", "insert"}
    /\ \E node \in {lowest(LoadNodes \ stored)} \ {NULL} :
           \E ok \in BOOLEAN : Insert(node, node - 1, ok)

LoadGet ==
    /\ call.op = "insert"
    /\ stored = LoadNodes
    /\ \E k \in LoadKeys : Get(k)

LoadRemove ==
    /\ stored = LoadNodes \/ call.op = "remove"
    /\ \E node \in {highest(stored)} \ {NULL} :
           \E ok \in BOOLEAN : Remove(node - 1, ok)

LoadNext == LoadInsert \/ LoadGet \/ LoadRemove

LoadSpec == LoadInit /\ [][LoadNext]_vars

\* The record the insert loop inserts next, with its key, and the key the
\* remove loop removes next.
load_inputs == {<<n, n - 1>> : n \in {lowest(LoadNodes \ stored)} \ {NULL}}

load_probe == {highest(stored) - 1} \cap LoadKeys

\* ------------------------------------------------- reading the table
\* The chain that starts at node, as the sequence a walk visits; the walk
\* gives up after limit nodes (more than there are, so only on a cycle).
RECURSIVE chain(_, _, _)
chain(m, node, limit) ==
    IF node = NULL \/ node = UNINIT \/ limit = 0 THEN <<>>
    ELSE <<node>> \o chain(m, m.next[node], limit - 1)

\* More nodes than a chain without a cycle can hold.
MaxChain == Cardinality(Nodes) + 1

\* The chain of bucket i of m.
bucket(m, i) == chain(m, m.table[i], MaxChain)

\* The set of nodes of a sequence.
members(seq) == {seq[j] : j \in 1 .. Len(seq)}

\* The buckets of m: slot -> chain, over the slots 0 .. len-1.
buckets(m) == [i \in 0 .. (m.len - 1) |-> bucket(m, i)]

RECURSIVE sum_len(_, _)
sum_len(bs, i) == IF i < 0 THEN 0 ELSE Len(bs[i]) + sum_len(bs, i - 1)

\* The number of links on the chains of the buckets bs over 0 .. n-1.
links(bs, n) == sum_len(bs, n - 1)

\* n is the only stored node with its key.
unique_key(n) == \A o \in stored : o # n => reckey[o] # reckey[n]

is_pow2(n) == \E e \in 0 .. 16 : n = 2 ^ e

\* --------------------------------------------------------------- C1
\* C1: every stored link whose key no other stored link carries is the
\* link hashmap_get returns for that key, whatever the hash values and
\* however often the table grew or shrank.
C1_GetReturnsInserted ==
    \A n \in stored : hashmap_get(Map, reckey[n]) # n => ~unique_key(n)

\* A table that grew, with two stored links of different keys and the
\* same hash value, both found.
C1_Witness ==
    /\ len = 2 * MIN_SLOTS
    /\ \E a, b \in stored :
          /\ a # b /\ hash[a] = hash[b] /\ reckey[a] # reckey[b]
          /\ unique_key(a) /\ unique_key(b)
          /\ hashmap_get(Map, reckey[a]) = a
          /\ hashmap_get(Map, reckey[b]) = b

\* --------------------------------------------------------------- C2
\* C2: count is the number of links on the chains of table[0 .. len-1],
\* which is the number of links inserted and not removed since.
C2_CountIsLinks ==
    \A bs \in {buckets(Map)} :
        /\ count = links(bs, len)
        /\ count = Cardinality(stored)
        /\ UNION {members(bs[i]) : i \in 0 .. (len - 1)} = stored

\* After a remove that shrank the table, with links left.
C2_Witness ==
    /\ call.op = "remove" /\ call.resize = "shrunk"
    /\ count > 0

\* --------------------------------------------------------------- C3
\* C3: every stored link is on exactly one bucket chain, once, and that
\* chain is the one of bucket hash & (len - 1); also after a growth or a
\* shrink whose reallocation failed.
C3_OneChain ==
    \A bs \in {buckets(Map)} :
        \* on the chain of its hash, once
        /\ \A n \in stored :
               \A c \in {bs[BitAnd(hash[n], len - 1)]} :
                   Cardinality({j \in 1 .. Len(c) : c[j] = n}) = 1
        \* and on no other chain
        /\ \A i \in 0 .. (len - 1) :
               \A j \in 1 .. Len(bs[i]) :
                   BitAnd(hash[bs[i][j]], len - 1) = i

\* After a shrink whose reallocation failed: the block is longer than len.
C3_Witness ==
    /\ call.op = "remove" /\ call.resize = "failed"
    /\ cap > len
    /\ \E n \in stored : BitAnd(hash[n], len) # 0

\* --------------------------------------------------------------- C4
\* C4: len is a power of two and at least MIN_SLOTS; a step leaves it, or
\* doubles it (an insert), or halves it (a remove, and only from above
\* MIN_SLOTS).
C4_LenPowerOfTwo ==
    /\ [](is_pow2(len) /\ len >= MIN_SLOTS)
    /\ [][\/ len' = len
          \/ len' = 2 * len /\ call'.op = "insert"
          \/ 2 * len' = len /\ len > MIN_SLOTS /\ call'.op = "remove"]_vars

\* The table is back at MIN_SLOTS after a shrink.
C4_Witness ==
    /\ call.op = "remove" /\ call.resize \in {"shrunk", "failed"}
    /\ len = MIN_SLOTS

\* --------------------------------------------------------------- C5
\* The outcomes realloc may have in a call that reallocates or not.
outcomes(resizes) == IF resizes THEN BOOLEAN ELSE {TRUE}

\* Three hashmap_remove(key) calls in a row on m return a, then b, then
\* NULL, for every outcome of the reallocations on the way.
three_removes(m, key, a, b) ==
    \A ok1 \in BOOLEAN, ok2 \in BOOLEAN :
        \A r1 \in {hashmap_remove(m, key, ok1)} :
            /\ r1.ret = a
            /\ \A r2 \in {hashmap_remove(r1.m, key, ok2)} :
                   /\ r2.ret = b
                   /\ hashmap_remove(r2.m, key, TRUE).ret = NULL

\* d.old and d.new are the only stored links with their key.
only_two(d) ==
    \A n \in stored : reckey[n] = reckey[d.new] => n \in {d.old, d.new}

\* hashmap_get returns d.new, and three removes return d.new, d.old, NULL.
newest_first(d) ==
    /\ hashmap_get(Map, reckey[d.new]) = d.new
    /\ three_removes(Map, reckey[d.new], d.new, d.old)

\* C5 as claimed: of two stored links with the same key, the one inserted
\* last is the one hashmap_get returns and the first one removed, the
\* other is removed second and a third remove returns NULL, whatever was
\* inserted before, between or after them.
C5_Original ==
    \A d \in dups : only_two(d) => newest_first(d)

\* C5 as amended: the same, provided no growth succeeded since the call
\* that inserted the second link began.
C5_NewestFirstUnlessGrown ==
    \A d \in dups : only_two(d) /\ ~d.grown => newest_first(d)

\* Two links with the same key in a table that grew before the second was
\* inserted, on a chain they share with a link of another key.
C5_Witness ==
    /\ len = 2 * MIN_SLOTS
    /\ call.op = "insert"
    /\ \E d \in dups :
          /\ only_two(d) /\ ~d.grown
          /\ hashmap_get(Map, reckey[d.new]) = d.new
          /\ \E n \in stored :
                 /\ reckey[n] # reckey[d.new]
                 /\ BitAnd(hash[n], len - 1) = BitAnd(hash[d.new], len - 1)

\* --------------------------------------------------------------- C6
\* The links of each bucket of m, as sets.
bucket_sets(m) == [i \in 0 .. (m.len - 1) |-> members(bucket(m, i))]

\* The records the caller may insert next, each with its key.
insert_inputs ==
    {<<n, k>> \in (Nodes \cap {next_fill}) \X FillKeys : k = n - 1}
        \cup ((Nodes \cap {free_node}) \X FreeKeys)

\* The remove returns node and leaves count, len and the links of every
\* bucket (before: their sets before the insert) as they were.
restored(node, r2, before) ==
    /\ r2.ret = node
    /\ r2.m.count = count
    /\ r2.m.len = len
    /\ bucket_sets(r2.m) = before

\* C6 as claimed: an insert followed at once by a remove of the same key
\* restores count, len and the links of every bucket, and the remove
\* returns the link just inserted.
C6_Original ==
    \A p \in insert_inputs, before \in {bucket_sets(Map)} :
        \A ok1 \in outcomes(insert_resizes(Map)) :
            \A r1 \in {hashmap_insert(new_record(Map, p[1], p[2]), p[1],
                                      p[2], ok1)} :
                \A ok2 \in outcomes(remove_resizes(r1.m, p[2])) :
                    restored(p[1], hashmap_remove(r1.m, p[2], ok2), before)

\* C6 as amended: the same, provided the insert does not grow the table.
C6_RoundTripUnlessGrown ==
    \A p \in insert_inputs, before \in {bucket_sets(Map)} :
        \A ok1 \in outcomes(insert_resizes(Map)) :
            \A r1 \in {hashmap_insert(new_record(Map, p[1], p[2]), p[1],
                                      p[2], ok1)} :
                \A ok2 \in outcomes(remove_resizes(r1.m, p[2])) :
                    r1.resize # "grown"
                        => restored(p[1], hashmap_remove(r1.m, p[2], ok2),
                                    before)

\* After a remove that shrank no table: a table one insert short of the
\* highest count that triggers no growth, with a record left to insert.
C6_Witness ==
    /\ call.op = "remove" /\ call.resize = "none"
    /\ count + 1 = 3 * len
    /\ insert_inputs # {}

\* --------------------------------------------------------------- C7
\* The keys the stored links carry.
stored_keys == {reckey[n] : n \in stored}

\* No stored link carries key.
absent(key) == key \notin stored_keys

\* C7: for a key that no stored link carries, hashmap_get and
\* hashmap_remove return NULL.
C7_AbsentKeyNotFound ==
    \A k \in Keys \ stored_keys :
        /\ hashmap_get(Map, k) = NULL
        /\ hashmap_remove(Map, k, TRUE).ret = NULL

\* A key that was removed and is absent, while the bucket it hashes to
\* holds links of other keys.
C7_Witness ==
    /\ call.op = "remove"
    /\ \E k \in FreeKeys :
          /\ absent(k)
          /\ table[BitAnd(hash_key(k), len - 1)] # NULL
          /\ hashmap_get(Map, k) = NULL

\* --------------------------------------------------------------- C8
\* main() has inserted the keys 0 .. 63 and nothing else.
inserted_64 == call.op = "insert" /\ stored = 1 .. 64

all_found(keys) == \A k \in keys : hashmap_get(Map, k) = k + 1

\* C8 as claimed: after the inserts of the keys 0 .. 63 into a fresh table
\* len is 128 and every key is found.
C8_Original ==
    inserted_64 => len = 128 /\ all_found(0 .. 63)

\* C8 as amended: len is 32 (one growth, at the 49th insert) and every
\* key is found.
C8_Len32After64 ==
    inserted_64 => len = 32 /\ all_found(0 .. 63)

C8_Witness ==
    inserted_64 /\ map_hash = "hash_test" /\ count = 64

\* --------------------------------------------------------------- C9
\* main() has removed the keys from the highest down to 16.
removed_to_16 == call.op = "remove" /\ stored = 1 .. 16

\* C9 as claimed: after the removes of 63 down to 16, len is 16 and the
\* keys 0 .. 15 are found.
C9_Original ==
    removed_to_16 => len = 16 /\ all_found(0 .. 15)

\* C9 as amended: len is still 32 (16 links are not fewer than 32 / 4) and
\* the keys 0 .. 15 are found.
C9_Len32With16Left ==
    removed_to_16 => len = 32 /\ all_found(0 .. 15)

C9_Witness ==
    removed_to_16 /\ map_hash = "hash_test" /\ count = 16

\* -------------------------------------------------------------- C10
\* C10: an empty table has len MIN_SLOTS; len never falls below
\* MIN_SLOTS, and after every remove the links left are found.
C10_EmptyIsMinSlots ==
    /\ count = 0 => len = MIN_SLOTS
    /\ len >= MIN_SLOTS
    /\ call.op = "remove" =>
           \A n \in stored : hashmap_get(Map, reckey[n]) # n => ~unique_key(n)

\* Emptied by removes after a growth: the block still has the slots of
\* the grown table, because the shrink could not reallocate.
C10_Witness ==
    /\ call.op = "remove"
    /\ count = 0
    /\ cap = 2 * MIN_SLOTS

\* -------------------------------------------------------------- C11
\* C11 as claimed: a call whose reallocation fails reports it: a
\* hashmap_insert whose growth cannot reallocate returns a value other than
\* the 0 of success, and the result of a hashmap_remove whose shrink cannot
\* reallocate differs from the result of the same call when it can.
C11_Original ==
    /\ \A p \in insert_inputs :
           insert_resizes(Map) =>
               hashmap_insert(new_record(Map, p[1], p[2]), p[1], p[2],
                              FALSE).ret # 0
    /\ \A k \in ProbeKeys :
           remove_resizes(Map, k) =>
               hashmap_remove(Map, k, FALSE).ret
                   # hashmap_remove(Map, k, TRUE).ret

\* -------------------------------------------------------------- C12
\* The table r.m left by an insert of the record p whose growth could not
\* reallocate: the node is linked at the head of its bucket and counted,
\* len, the block and every other chain are as before, and every key is
\* found.
failed_growth_skipped(p, r) ==
    /\ r.resize = "failed"
    /\ r.m.len = len /\ r.m.cap = cap
    /\ r.m.count = count + 1
    /\ \A bs \in {buckets(Map)} :
           \A i \in 0 .. (len - 1) :
               bucket(r.m, i) =
                   IF i = BitAnd(hash_key(p[2]), len - 1)
                   THEN <<p[1]>> \o bs[i] ELSE bs[i]
    /\ hashmap_get(r.m, p[2]) = p[1]
    /\ \A n \in stored :
           unique_key(n) /\ reckey[n] # p[2]
               => hashmap_get(r.m, reckey[n]) = n

\* An insert of the record p into an overloaded table attempts the growth:
\* it fails when realloc fails, and doubles len when realloc succeeds.
growth_retried(p) ==
    /\ hashmap_insert(new_record(Map, p[1], p[2]), p[1], p[2],
                      FALSE).resize = "failed"
    /\ \A r \in {hashmap_insert(new_record(Map, p[1], p[2]), p[1], p[2],
                                TRUE)} :
           r.resize = "grown" /\ r.m.len = 2 * len

\* C12: an insert whose growth cannot reallocate still links and counts
\* the node and leaves len and every chain otherwise as they were, with
\* every stored key found; and while count > len * 3 every further insert
\* attempts the growth again.
C12_FailedGrowthSkipped ==
    /\ \A p \in load_inputs :
           insert_resizes(Map) =>
               failed_growth_skipped(
                   p, hashmap_insert(new_record(Map, p[1], p[2]), p[1],
                                     p[2], FALSE))
    /\ count > len * 3 => \A p \in load_inputs : growth_retried(p)

\* Growth has failed at every insert since the threshold of MIN_SLOTS * 3
\* was crossed, up to twice that count, and a record is left to insert.
C12_Witness ==
    /\ call.op = "insert" /\ call.resize = "failed"
    /\ len = MIN_SLOTS
    /\ count = len * 6
    /\ load_inputs # {}

\* -------------------------------------------------------------- C13
\* The bucket slot hashmap_get, hashmap_insert and hashmap_remove index
\* for key.
slot_of(m, key) == BitAnd(hash_key(key), m.len - 1)

\* The slots hashmap_shrink reads on m: i and i + len / 2 for i < len / 2.
shrink_reads(m) ==
    {i : i \in 0 .. (m.len \div 2 - 1)}
        \cup {i + m.len \div 2 : i \in 0 .. (m.len \div 2 - 1)}

\* The slots hashmap_grow reads and writes on m, after its realloc to
\* 2 * len slots: it reads i, and writes i and i + len, for i < len.
grow_reads(m) == 0 .. (m.len - 1)

grow_writes(m) == grow_reads(m) \cup {i + m.len : i \in grow_reads(m)}

\* The slots of the block of m that hold a value written to them.
written(m) == {i \in DOMAIN m.table : m.table[i] # UNINIT}

\* The table r.m left by a remove whose shrink could not reallocate: len
\* is halved, the block is the one retained and is long enough, and every
\* link still stored is on the chain of its folded bucket and is found.
folded_in_place(r) ==
    /\ r.resize = "failed"
    /\ 2 * r.m.len = len
    /\ r.m.cap = cap /\ r.m.cap >= r.m.len
    /\ DOMAIN r.m.table = 0 .. (r.m.cap - 1)
    /\ 0 .. (r.m.len - 1) \subseteq written(r.m)
    /\ \A n \in stored \ {r.ret} :
           /\ n \in members(bucket(r.m, BitAnd(hash[n], r.m.len - 1)))
           /\ unique_key(n) => hashmap_get(r.m, reckey[n]) = n

\* C13: a remove whose shrink cannot reallocate halves len and keeps the
\* block, with every link on the chain of its folded bucket and found; and
\* in every state, also after such a shrink and after a later growth, the
\* block holds at least len slots, the slots below len hold values written
\* to them, and every slot an operation reads is one of those: the slot of
\* a key, the slots a shrink folds, the slots a growth splits; a growth
\* writes every slot of the block it reallocated before len doubles.
C13_NoDanglingIndex ==
    /\ cap >= len
    /\ DOMAIN table = 0 .. (cap - 1)
    /\ 0 .. (len - 1) \subseteq written(Map)
    /\ \A k \in Keys : slot_of(Map, k) \in 0 .. (len - 1)
    /\ \A k \in ProbeKeys :
           remove_resizes(Map, k) =>
               /\ shrink_reads(Map) \subseteq written(Map)
               /\ folded_in_place(hashmap_remove(Map, k, FALSE))
    /\ \A p \in insert_inputs :
           insert_resizes(Map) =>
               /\ grow_reads(Map) \subseteq written(Map)
               /\ \A r \in {hashmap_insert(new_record(Map, p[1], p[2]),
                                           p[1], p[2], TRUE)} :
                      /\ DOMAIN r.m.table = grow_writes(Map)
                      /\ written(r.m) = grow_writes(Map)
                      /\ r.m.cap = r.m.len

\* A table whose last shrink could not reallocate (the block is longer
\* than len) has filled up again: the next insert grows it inside the
\* retained block.
C13_Witness ==
    /\ cap = 2 * len
    /\ count = len * 3
    /\ insert_inputs # {}

\* -------------------------------------------------------------- C14
\* The step is a call whose reallocation failed.
alloc_fails == stored' # stored /\ call'.resize = "failed"

\* The step is a hashmap_insert whose growth reallocated.
insert_grows ==
    stored' # stored /\ call'.op = "insert" /\ call'.resize = "grown"

\* C14 as claimed: after a hashmap_insert whose growth reallocated, count
\* is at most len * 3, also when earlier growths failed.
C14_Original ==
    call.op = "insert" /\ call.resize = "grown" => count <= len * 3

\* C14 as amended: a growth doubles len once, so after a hashmap_insert
\* whose growth reallocated count is at most len * 3 exactly when the
\* count before the call was below six times the old len; and count is at
\* most len * 3 at the start and stays so over every call in which no
\* allocation fails.
C14_LoadBoundedUnlessFailed ==
    /\ [][insert_grows =>
              /\ len' = 2 * len /\ count' = count + 1
              /\ (count' <= len' * 3) <=> (count < len * 6)]_vars
    /\ count <= len * 3
    /\ [][count <= len * 3 /\ ~alloc_fails => count' <= len' * 3]_vars

\* A growth that reallocated after earlier attempts had failed, and that
\* brought count back under len * 3.
C14_Witness ==
    /\ call.op = "insert" /\ call.resize = "grown"
    /\ len = 2 * MIN_SLOTS
    /\ count > MIN_SLOTS * 3 + 1
    /\ count <= len * 3

\* -------------------------------------------------------------- C15
\* The step is a hashmap_remove that unlinked a node.
removes == stored' # stored /\ call'.op = "remove"

\* C15: in every state len is MIN_SLOTS or count is at least len / 4; a
\* hashmap_remove leaves len or halves it once, when its shrink fires, and
\* then count is at least a quarter of the halved len unless that len is
\* MIN_SLOTS.
C15_QuarterLoadOrFloor ==
    /\ [](len = MIN_SLOTS \/ count >= len \div 4)
    /\ [][removes =>
              \/ len' = len /\ call'.resize = "none"
              \/ /\ 2 * len' = len
                 /\ call'.resize \in {"shrunk", "failed"}
                 /\ len' = MIN_SLOTS \/ count' >= len' \div 4]_vars

\* A shrink from 4 * MIN_SLOTS to 2 * MIN_SLOTS: the halved len is above
\* the floor.
C15_Witness ==
    /\ call.op = "remove" /\ call.resize \in {"shrunk", "failed"}
    /\ len = 2 * MIN_SLOTS
    /\ count = len \div 2 - 1

\* -------------------------------------------------------------- C16
\* The first node of the chain seq whose record carries key (NULL: none).
first_match(seq, key) ==
    IF \A j \in 1 .. Len(seq) : reckey[seq[j]] # key THEN NULL
    ELSE seq[CHOOSE j \in 1 .. Len(seq) :
                 /\ reckey[seq[j]] = key
                 /\ \A o \in 1 .. (j - 1) : reckey[seq[o]] # key]

\* The nodes on the chains of the buckets of m.
linked(m) == UNION {members(bucket(m, i)) : i \in 0 .. (m.len - 1)}

\* seq without the node n.
without(seq, n) ==
    LET other(o) == o # n
    IN  SelectSeq(seq, other)

\* The unlink of node from the chain c of slot stored to one pointer, the
\* slot or the next field of a node of c, and it stored node's successor.
one_store(m, slot, c, node) ==
    \/ /\ m.next = next
       /\ m.table = [table EXCEPT ![slot] = next[node]]
    \/ /\ m.table = table
       /\ \E prev \in members(c) \ {node} :
              m.next = [next EXCEPT ![prev] = next[node]]

\* No slot below len and no next field of a stored link points to node.
unreferenced(m, node) ==
    /\ \A i \in 0 .. (m.len - 1) : m.table[i] # node
    /\ \A n \in stored \ {node} : m.next[n] # node

\* r is the outcome of hashmap_remove(key) on the table: it returns the
\* first match of the chain of the key's bucket; if there is one, count is
\* one less, the node is on no chain and every other link is on one: a
\* remove that does not resize leaves the chain without the node, stores
\* to nothing else and leaves no pointer to the node.
removes_first_match(key, r) ==
    \A c \in {bucket(Map, slot_of(Map, key))} :
        /\ r.ret = first_match(c, key)
        /\ r.ret # NULL =>
               /\ r.m.count = count - 1
               /\ IF r.resize = "none"
                  THEN /\ bucket(r.m, slot_of(Map, key)) = without(c, r.ret)
                       /\ Len(c) = Len(without(c, r.ret)) + 1
                       /\ one_store(r.m, slot_of(Map, key), c, r.ret)
                       /\ unreferenced(r.m, r.ret)
                       /\ r.m.len = len /\ r.m.hash = hash
                  ELSE \A bs \in {buckets(r.m)} :
                           /\ UNION {members(bs[i]) :
                                         i \in 0 .. (r.m.len - 1)}
                                  = stored \ {r.ret}
                           /\ links(bs, r.m.len) = count - 1

\* C16: a hashmap_remove that finds a match unlinks the first matching
\* link of the key's bucket and no other: count drops by one, the link
\* returned is on no chain, also when the remove shrinks the table, and
\* every other stored link is still on a chain, once.
C16_RemovesFirstMatchOnly ==
    \A k \in ProbeKeys :
        \A ok \in outcomes(remove_resizes(Map, k)) :
            removes_first_match(k, hashmap_remove(Map, k, ok))

\* After a remove: two stored links carry the same key, and the first of
\* them in walking order is not the head of its chain.
C16_Witness ==
    /\ call.op = "remove"
    /\ \E k \in ProbeKeys :
           \E n \in {first_match(bucket(Map, slot_of(Map, k)), k)} :
               /\ n # NULL
               /\ table[slot_of(Map, k)] # n
               /\ \E o \in stored \ {n} : reckey[o] = k

\* -------------------------------------------------------------- C17
\* C17: a hashmap_remove of a key no stored link carries returns NULL and
\* leaves len, count, the bucket array and the hash and next fields of
\* every node as they were, and neither grows nor shrinks the table,
\* whatever realloc would do; hashmap_get (lines 92-101 hold no store)
\* returns a stored link or NULL, and a step that is no insert and no
\* remove of a link changes nothing.
C17_MissLeavesTable ==
    /\ [](\A k \in Keys \ stored_keys :
              \A ok \in BOOLEAN :
                  \A r \in {hashmap_remove(Map, k, ok)} :
                      /\ r.ret = NULL
                      /\ r.resize = "none"
                      /\ r.m = Map)
    /\ [](\A k \in Keys : hashmap_get(Map, k) \in stored \cup {NULL})
    /\ [][stored' = stored => UNCHANGED vars]_vars

\* A key no stored link carries, whose bucket starts with a link of the
\* same hash value: the walk meets it and passes it.
C17_Witness ==
    /\ call.op = "insert"
    /\ \E k \in Keys \ stored_keys :
           /\ table[slot_of(Map, k)] # NULL
           /\ hash[table[slot_of(Map, k)]] = hash_key(k)
           /\ hashmap_get(Map, k) = NULL

\* -------------------------------------------------------------- C18
\* The table m after the unlink step of hashmap_remove(key), before the
\* shrink the remove may trigger.
unlinked(m, key) ==
    unlink(m, slot_of(m, key),
           remove_walk(m, m.table[slot_of(m, key)], NULL, key))

\* s is m folded: len is halved, the chain of each bucket i of s is the
\* chain of bucket i of m followed by the chain of bucket i + s.len of m,
\* and the links on the chains are the same.
folds(m, s) ==
    /\ 2 * s.len = m.len
    /\ \A i \in 0 .. (s.len - 1) :
           \A c \in {bucket(s, i)} :
               /\ c = bucket(m, i) \o bucket(m, i + s.len)
               /\ Cardinality(members(c)) = Len(c)
    /\ s.count = m.count

\* C18: hashmap_shrink, on every table above MIN_SLOTS and whether its
\* realloc succeeds or not, makes each bucket i of the halved table the old
\* chain of bucket i followed by the old chain of bucket i + L, each in its
\* old order, with no link lost or duplicated; so does the shrink a
\* hashmap_remove triggers, on the table its unlink step left.
C18_ShrinkConcatenates ==
    /\ len > MIN_SLOTS =>
           \A ok \in BOOLEAN : folds(Map, hashmap_shrink(Map, ok).m)
    /\ \A k \in load_probe :
           remove_resizes(Map, k) =>
               \A ok \in BOOLEAN :
                   folds(unlinked(Map, k), hashmap_remove(Map, k, ok).m)

\* A grown table after a remove, with a bucket i and its partner i + L
\* that both hold more than one link.
C18_Witness ==
    /\ call.op = "remove"
    /\ len = 2 * MIN_SLOTS
    /\ \E i \in 0 .. (MIN_SLOTS - 1) :
           /\ Len(bucket(Map, i)) >= 2
           /\ Len(bucket(Map, i + MIN_SLOTS)) >= 2

\* -------------------------------------------------------------- C19
Reverse(seq) == [j \in 1 .. Len(seq) |-> seq[Len(seq) + 1 - j]]

\* The nodes of seq whose cached hash has the bit L set (up), or clear.
half_of(m, seq, L, up) ==
    LET in_half(n) == (BitAnd(m.hash[n], L) # 0) = up
    IN  SelectSeq(seq, in_half)

\* g is m grown: len is doubled, the block has 2 * len slots, each old
\* chain i is split by the bit len of the cached hashes into the chains i
\* and i + len, each in reverse of the old order; the cached hashes and
\* the links on the chains are the same.
splits(m, g) ==
    /\ g.len = 2 * m.len /\ g.cap = g.len
    /\ g.hash = m.hash
    /\ \A i \in 0 .. (m.len - 1) :
           \A old \in {bucket(m, i)} :
               /\ bucket(g, i) = Reverse(half_of(m, old, m.len, FALSE))
               /\ bucket(g, i + m.len)
                      = Reverse(half_of(m, old, m.len, TRUE))
    /\ linked(g) = linked(m)

\* The growth of m does not read the keys: with every key field zeroed it
\* builds the same chains.
keys_unread(m) ==
    \A z \in {[m EXCEPT !.reckey = [n \in DOMAIN m.reckey |-> 0]]} :
        /\ hashmap_grow(z, TRUE).m.table = hashmap_grow(m, TRUE).m.table
        /\ hashmap_grow(z, TRUE).m.next = hashmap_grow(m, TRUE).m.next

\* C19: the growth a hashmap_insert triggers, when its realloc succeeds,
\* splits each old chain i by the bit L of the cached hashes: clear to
\* bucket i, set to bucket i + L, each in reverse of the old order, with
\* no link lost or duplicated, no cached hash changed and no key read.
C19_GrowthSplitsReversed ==
    \A p \in load_inputs :
        insert_resizes(Map) =>
            \A m1 \in {link(new_record(Map, p[1], p[2]), p[1], p[2])} :
                /\ splits(m1, hashmap_insert(new_record(Map, p[1], p[2]),
                                             p[1], p[2], TRUE).m)
                /\ keys_unread(m1)

\* After a growth: a bucket i and its partner i + L both hold more than
\* one link of the chain that was split.
C19_Witness ==
    /\ call.op = "insert" /\ call.resize = "grown"
    /\ \E i \in 0 .. (len \div 2 - 1) :
           /\ Len(bucket(Map, i)) >= 2
           /\ Len(bucket(Map, i + len \div 2)) >= 2

\* -------------------------------------------------------------- C20
\* The walk over the chain c of bucket i of m ends at NULL: it is not cut
\* short by the limit or by a slot or a next field that was never written.
null_terminated(m, i, c) ==
    /\ Len(c) < MaxChain
    /\ IF c = <<>> THEN m.table[i] = NULL ELSE m.next[c[Len(c)]] = NULL

\* C20: with every node inserted while it is not stored, in every state
\* each bucket chain ends at NULL after at most count links, visits no
\* link twice and shares no link with another chain; so the walks of
\* hashmap_get and hashmap_remove, and those of the growth and the shrink
\* an insert or a remove triggers, end, and every call returns.
C20_ChainsEnd ==
    /\ \A bs \in {buckets(Map)} :
           /\ \A i \in 0 .. (len - 1) :
                  /\ null_terminated(Map, i, bs[i])
                  /\ Len(bs[i]) <= count
                  /\ members(bs[i]) \subseteq stored
           /\ links(bs, len)
                  = Cardinality(UNION {members(bs[i]) : i \in 0 .. (len - 1)})
    /\ \A k \in ProbeKeys :
           /\ hashmap_get(Map, k) \in stored \cup {NULL}
           /\ \A ok \in outcomes(remove_resizes(Map, k)) :
                  hashmap_remove(Map, k, ok).ret \in stored \cup {NULL}
    /\ \A p \in insert_inputs, ok \in outcomes(insert_resizes(Map)) :
           hashmap_insert(new_record(Map, p[1], p[2]), p[1], p[2], ok).ret
               = 0

\* A table refilled inside the block a failed shrink retained, with a
\* chain of three links or more.
C20_Witness ==
    /\ call.op = "insert"
    /\ cap = 2 * len
    /\ \E i \in 0 .. (len - 1) : Len(bucket(Map, i)) >= 3

====
